---- MODULE Spec2Model ----
(***************************************************************************)
(* Model of the sumo strategy prober (src/src/main.rs): the match driver   *)
(* thread spawned by probe_strategy, its physics step `update`, the sensor *)
(* model `calc_ir`, and the frame consumer `graphics_driver` on the other  *)
(* end of the mpsc channel.                                                *)
(*                                                                         *)
(* Numbers.  The program computes in f32.  The model computes in fixed     *)
(* point: a length is a whole number of 1/LenScale, an angle a whole       *)
(* number of 1/AngScale radian, a sine or cosine a whole number of         *)
(* 1/TrigScale.  Rounding is truncation towards zero.  PI is rounded to    *)
(* the nearest multiple of 8 so that PI/4, PI/2 and 2*PI are whole, and    *)
(* the sine is exact at every multiple of PI/2.  The f32 values NaN and    *)
(* +-infinity that x/y produces for y = 0 are modelled where they arise    *)
(* (origin_dir, radius_towards, the comparisons and the min/max fold).     *)
(***************************************************************************)
EXTENDS Integers, Sequences, FiniteSets, TLC

\* ------------------------------------------------------------------------
\* Fixed-point representation of f32
\* ------------------------------------------------------------------------
LenScale == 200
AngScale == 1000
TrigScale == 200

\* the f32 NaN: a value no computation of the model produces otherwise
NaN == 999999999

IsNaN(v) == v = NaN

Abs(v) == IF v < 0 THEN -v ELSE v

Sgn(v) == IF v < 0 THEN -1 ELSE IF v > 0 THEN 1 ELSE 0

\* a / b rounded towards zero (b # 0)
Quot(a, b) == Sgn(a) * Sgn(b) * (Abs(a) \div Abs(b))

\* the f32 operator %: the remainder has the sign of the dividend
Rem(a, b) == a - b * Quot(a, b)

\* largest r with r * r <= n, by bisection on [lo, hi]
RECURSIVE SqrtIn(_, _, _)
SqrtIn(n, lo, hi) ==
    IF lo >= hi THEN lo
    ELSE LET mid == (lo + hi + 1) \div 2
         IN  IF mid * mid <= n THEN SqrtIn(n, mid, hi) ELSE SqrtIn(n, lo, mid - 1)

\* f32::sqrt on a sum of squares of lengths
Sqrt(n) == SqrtIn(n, 0, 40000)

\* ------------------------------------------------------------------------
\* Constants (src/src/main.rs:27-48)
\* ------------------------------------------------------------------------
PI == 3144
SQRT_2 == 1414
X_INIT_POS == 2000
SUMO_SIZE == 500
TATAMI_SIZE == 4000
PUSH_FRICTION == 200

\* M = SUMO_SIZE * 4 * (SQRT_2 - 1) / PI, a length per radian
M == Quot(SUMO_SIZE * 4 * (SQRT_2 - AngScale), PI)

\* f32::sin, by Bhaskara's rational approximation on [0, PI]; exact at the
\* multiples of PI/2
SinHalfTurn(x) ==
    LET p == x * (PI - x)
    IN  Quot(4 * p * TrigScale, 5 * (PI \div 2) * (PI \div 2) - p)

Sin(a) ==
    LET r == a % (2 * PI)
    IN  IF r <= PI THEN SinHalfTurn(r) ELSE -SinHalfTurn(r - PI)

\* f32::cos
Cos(a) == Sin(a + PI \div 2)

\* f32::atan of the quotient x / y of two lengths, with x / 0 = +-infinity
\* and 0 / 0 = NaN; |t| <= 1 uses t * (PI/4 + 0.273 * (1 - |t|))
AtanUnit(x, y) ==
    LET t == Quot(AngScale * x, y)
    IN  Quot(t * (PI \div 4), AngScale)
          + Quot(273 * t * (AngScale - Abs(t)), AngScale * AngScale)

AtanQuot(x, y) ==
    IF y = 0
    THEN IF x = 0 THEN NaN ELSE Sgn(x) * (PI \div 2)
    ELSE IF Abs(x) <= Abs(y)
         THEN AtanUnit(x, y)
         ELSE Sgn(x) * Sgn(y) * (PI \div 2) - AtanUnit(y, x)

\* ------------------------------------------------------------------------
\* Vec2 (src/src/main.rs:70-171)
\* ------------------------------------------------------------------------
Vec2(x, y) == [x |-> x, y |-> y]

ORIGIN == Vec2(0, 0)

Vec2Add(a, rhs) == Vec2(a.x + rhs.x, a.y + rhs.y)

Vec2Sub(a, rhs) == Vec2(a.x - rhs.x, a.y - rhs.y)

origin_dir(v) == AtanQuot(v.x, v.y)

dist(a, sstate) ==
    LET vstate == Vec2Sub(a, sstate)
    IN  Sqrt(vstate.x * vstate.x + vstate.y * vstate.y)

\* ------------------------------------------------------------------------
\* SumoState and SumoReq (src/src/main.rs:173-248)
\* ------------------------------------------------------------------------
\* corners is the array [Vec2; 4] as a sequence; Rust index i is index i + 1
SumoState(center, dir, corners) ==
    [center |-> center, dir |-> dir, corners |-> corners]

SumoReq(motor_l, motor_r) == [motor_l |-> motor_l, motor_r |-> motor_r]

REQ_CASTER == SumoState(ORIGIN, 0, <<ORIGIN, ORIGIN, ORIGIN, ORIGIN>>)

\* mutant of AddVec2: the center moves, the corners stay
AddVec2_CenterOnly(self, rhs) ==
    SumoState(Vec2Add(rhs, self.center), self.dir, self.corners)

\* impl Add<Vec2> for SumoState
AddVec2(self, rhs) ==
    SumoState(Vec2Add(rhs, self.center),
              self.dir,
              [i \in 1..4 |-> Vec2Add(self.corners[i], rhs)])

radius_towards(self, theta) ==
    IF IsNaN(theta) THEN NaN
    ELSE LET rel_dir == Rem(theta - self.dir, PI \div 2)
         IN  IF rel_dir <= PI \div 4
             THEN Quot(M * rel_dir, AngScale) + SUMO_SIZE
             ELSE Quot(M * (PI \div 2 - rel_dir), AngScale) + SUMO_SIZE

vel(self) == Quot(self.motor_l + self.motor_r, 2)

\* mutant of AddReq: the new heading forgets the old one
AddReq_NoDir(self, sstate) ==
    LET delta_teta ==
            Rem(Quot((sstate.motor_r - sstate.motor_l) * AngScale, SUMO_SIZE),
                2 * PI)
        v == vel(sstate)
        dv == Vec2(Quot(Cos(delta_teta) * v, TrigScale),
                   Quot(Sin(delta_teta) * v, TrigScale))
    IN  SumoState(Vec2Add(self.center, dv),
                  delta_teta,
                  [i \in 1..4 |-> Vec2Add(self.corners[i], dv)])

\* impl Add<SumoReq> for SumoState
AddReq(self, sstate) ==
    LET delta_teta ==
            Rem(Quot((sstate.motor_r - sstate.motor_l) * AngScale, SUMO_SIZE)
                  + self.dir, 2 * PI)
        v == vel(sstate)
        dv == Vec2(Quot(Cos(delta_teta) * v, TrigScale),
                   Quot(Sin(delta_teta) * v, TrigScale))
    IN  SumoState(Vec2Add(self.center, dv),
                  delta_teta,
                  [i \in 1..4 |-> Vec2Add(self.corners[i], dv)])

\* ------------------------------------------------------------------------
\* Round (src/src/main.rs:81-111)
\* ------------------------------------------------------------------------
Round == {"Round1", "Round2", "Round3"}

\* panic!("bad round number")
BadRound == "bad round number"

RoundFrom(value) ==
    CASE value = 1 -> "Round1"
      [] value = 2 -> "Round2"
      [] value = 3 -> "Round3"
      [] OTHER -> BadRound

\* ------------------------------------------------------------------------
\* probe_strategy: round_start, update, calc_ir (src/src/main.rs:265-406)
\* ------------------------------------------------------------------------
\* the array [SumoState; 2] as a pair; Rust index 0 is index 1
round_start(round) ==
    << SumoState(
         Vec2(X_INIT_POS, 0),
         CASE round = "Round1" -> PI
           [] round = "Round2" -> PI \div 2
           [] round = "Round3" -> 0,
         << Vec2(X_INIT_POS + SUMO_SIZE \div 2, SUMO_SIZE \div 2),
            Vec2(X_INIT_POS + SUMO_SIZE \div 2, -(SUMO_SIZE \div 2)),
            Vec2(X_INIT_POS - SUMO_SIZE \div 2, SUMO_SIZE \div 2),
            Vec2(X_INIT_POS - SUMO_SIZE \div 2, -(SUMO_SIZE \div 2)) >>),
       SumoState(
         Vec2(-X_INIT_POS, 0),
         CASE round = "Round1" -> 0
           [] round = "Round2" -> (3 * PI) \div 2
           [] round = "Round3" -> PI,
         << Vec2((-X_INIT_POS) + SUMO_SIZE \div 2, SUMO_SIZE \div 2),
            Vec2((-X_INIT_POS) + SUMO_SIZE \div 2, -(SUMO_SIZE \div 2)),
            Vec2((-X_INIT_POS) - SUMO_SIZE \div 2, SUMO_SIZE \div 2),
            Vec2((-X_INIT_POS) - SUMO_SIZE \div 2, -(SUMO_SIZE \div 2)) >>) >>

\* Option<[SumoState; 2]>
Some(v) == [some |-> TRUE, val |-> v]

None == [some |-> FALSE, val |-> <<>>]

\* the comparison a < b of two f32, false when b is NaN
LessThan(a, b) == ~IsNaN(b) /\ a < b

\* the f32 sum a + b, NaN when either is
Plus(a, b) == IF IsNaN(a) \/ IsNaN(b) THEN NaN ELSE a + b

\* the closure `ap` chosen by the sign of vatt
ap(vatt, x, y) ==
    IF vatt > 0 THEN AddVec2(x, y) ELSE AddVec2(x, Vec2Sub(ORIGIN, y))

\* the collision test of update: the distance is taken between the centers
\* update was called with, theta and the radii from the provisional states
Collides(sysl, sysr, sy_s) ==
    LET theta == origin_dir(Vec2Sub(sy_s[1].center, sy_s[2].center))
    IN  LessThan(dist(sysl.center, sysr.center),
                 Plus(radius_towards(sy_s[1], theta),
                      radius_towards(sy_s[2], theta)))

\* mutant of Pushed: the push is applied to the provisional states
Pushed_OnProvisional(sysl, sysr, reql, reqr) ==
    LET vatt == vel(reqr) - vel(reql)
        d == AddReq(REQ_CASTER, reqr).dir
        gyatt == Sin(d)
        xatt == Cos(d)
        vec_push == Vec2(Quot(Quot(xatt * vatt, TrigScale) * LenScale, PUSH_FRICTION),
                         Quot(Quot(gyatt * vatt, TrigScale) * LenScale, PUSH_FRICTION))
    IN  << ap(vatt, AddReq(sysl, reql), vec_push),
           ap(vatt, AddReq(sysr, reqr), Vec2Sub(ORIGIN, vec_push)) >>

\* the push branch of update
Pushed(sysl, sysr, reql, reqr) ==
    LET vatt == vel(reqr) - vel(reql)
        d == AddReq(REQ_CASTER, reqr).dir
        gyatt == Sin(d)
        xatt == Cos(d)
        vec_push == Vec2(Quot(Quot(xatt * vatt, TrigScale) * LenScale, PUSH_FRICTION),
                         Quot(Quot(gyatt * vatt, TrigScale) * LenScale, PUSH_FRICTION))
    IN  << ap(vatt, sysl, vec_push), ap(vatt, sysr, Vec2Sub(ORIGIN, vec_push)) >>

\* the boundary test of update, on the states update was called with
InTatami(sysl, sysr) ==
    /\ dist(sysl.center, ORIGIN) < TATAMI_SIZE
    /\ dist(sysr.center, ORIGIN) < TATAMI_SIZE

update(sys, reqs) ==
    LET sysl == sys[1]
        sysr == sys[2]
        reql == reqs[1]
        reqr == reqs[2]
        prov == << AddReq(sysl, reql), AddReq(sysr, reqr) >>
        sy_s == IF Collides(sysl, sysr, prov)
                THEN Pushed(sysl, sysr, reql, reqr)
                ELSE prov
    IN  IF InTatami(sysl, sysr) THEN Some(sy_s) ELSE None

\* f32::max, which returns the other operand when one is NaN
MaxF(a, b) == IF IsNaN(b) THEN a ELSE IF IsNaN(a) THEN b ELSE IF a >= b THEN a ELSE b

\* f32::min
MinF(a, b) == IF IsNaN(b) THEN a ELSE IF IsNaN(a) THEN b ELSE IF a <= b THEN a ELSE b

\* one step |(x, y), t| (x.min(y), y.max(t)) of the fold of calc_ir
FoldStep(acc, t) == << MinF(acc[1], acc[2]), MaxF(acc[2], t) >>

RECURSIVE FoldCorners(_, _, _)
FoldCorners(acc, bearings, i) ==
    IF i > Len(bearings) THEN acc
    ELSE FoldCorners(FoldStep(acc, bearings[i]), bearings, i + 1)

calc_ir(s1, s2, d) ==
    LET bearings == [i \in 1..4 |-> origin_dir(s2.corners[i])]
        mm == FoldCorners(<<0, 0>>, bearings, 1)
        min_corner == mm[1]
        max_corner == mm[2]
    IN  IF s1.dir <= max_corner /\ s1.dir >= min_corner THEN d ELSE 0

\* ------------------------------------------------------------------------
\* Strategies (type Strategy = fn(f32) -> SumoReq, src/src/main.rs:141)
\* ------------------------------------------------------------------------
\* "still" and "quarter" are the two closures main passes to probe_strategy;
\* the others are further pure functions of the sensor reading
Strategies == {"still", "quarter", "charge", "retreat", "seek"}

\* motor speeds of a quarter turn on the spot: (r - l) / SUMO_SIZE = PI / 2
SpinSpeed == Quot(SUMO_SIZE * (PI \div 4), AngScale)

Strategy(s, reading) ==
    CASE s = "still"   -> SumoReq(0, 0)
      [] s = "quarter" -> SumoReq(LenScale \div 4, LenScale \div 4)
      [] s = "charge"  -> SumoReq(SUMO_SIZE, SUMO_SIZE)
      [] s = "retreat" -> SumoReq(-SUMO_SIZE, -SUMO_SIZE)
      [] s = "seek"    -> IF reading > 0
                          THEN SumoReq(SUMO_SIZE \div 2, SUMO_SIZE \div 2)
                          ELSE SumoReq(-SpinSpeed, SpinSpeed)

\* ------------------------------------------------------------------------
\* Bounds of the model
\* ------------------------------------------------------------------------
\* frames the unbounded channel holds before the model stops the producer
MaxQueue == 2
\* frames whose production and reception the history variables record
MaxFrames == 4
\* Continuing ticks of one round that the history variable counts
MaxTicks == 42

\* ------------------------------------------------------------------------
\* State
\* ------------------------------------------------------------------------
VARIABLES
    strat1, strat2,   \* the arguments of probe_strategy
    round,            \* the loop variable of `for round in 1u8..=3u8`
    simPc,            \* where the simulation thread is
    sym_state,        \* let mut sym_state
    iter,             \* the locals of the last iteration of the tick loop
    chan,             \* the frames sent and not yet received
    gPc,              \* where graphics_driver is
    produced,         \* history: the first MaxFrames frames handed to send
    received,         \* history: the ids of the frames try_recv returned
    overs,            \* history: <<result, robots down>> of each RoundOver
    ticks             \* history: Continuing ticks of the round, up to MaxTicks

vars == << strat1, strat2, round, simPc, sym_state, iter, chan, gPc,
           produced, received, overs, ticks >>

\* mutant of LastRound: the loop runs one round too many
LastRound_OneMore == 3 + 1

\* the last round number of the for loop
LastRound == 3

\* the locals of one iteration of the tick loop (src/src/main.rs:419-428)
Iteration(sys, s1, s2) ==
    LET d == dist(sys[1].center, sys[2].center)
        ir == << calc_ir(sys[1], sys[2], d), calc_ir(sys[2], sys[1], d) >>
        ir_reads == << Strategy(s1, ir[1]), Strategy(s2, ir[2]) >>
        prov == << AddReq(sys[1], ir_reads[1]), AddReq(sys[2], ir_reads[2]) >>
    IN  [ run      |-> TRUE,
          sys      |-> sys,
          ir       |-> ir,
          ir_reads |-> ir_reads,
          prov     |-> prov,
          collided |-> Collides(sys[1], sys[2], prov),
          res      |-> update(sys, ir_reads) ]

NoIteration ==
    [ run      |-> FALSE,
      sys      |-> << REQ_CASTER, REQ_CASTER >>,
      ir       |-> << 0, 0 >>,
      ir_reads |-> << SumoReq(0, 0), SumoReq(0, 0) >>,
      prov     |-> << REQ_CASTER, REQ_CASTER >>,
      collided |-> FALSE,
      res      |-> None ]

\* the robots (1 or 2) whose center is at or beyond TATAMI_SIZE
Down(sys) == { i \in 1..2 : dist(sys[i].center, ORIGIN) >= TATAMI_SIZE }

\* mutant of SendBlocks: a rendezvous channel, send waits for the queue to
\* drain
SendBlocks_Rendezvous(q) == Len(q) > 0

\* mpsc::channel() is unbounded: send never waits for the receiver
SendBlocks(q) == FALSE

\* the receiver lives until graphics_driver returns and drops `states`
ReceiverAlive == gPc # "returned"

Init ==
    /\ strat1 \in Strategies
    /\ strat2 \in Strategies
    /\ round = 1
    /\ simPc = "for"
    /\ sym_state = << REQ_CASTER, REQ_CASTER >>
    /\ iter = NoIteration
    /\ chan = << >>
    /\ gPc = "poll"
    /\ produced = << >>
    /\ received = << >>
    /\ overs = {}
    /\ ticks = 0

\* let mut sym_state = round_start(Round::from(round));
StartRound ==
    /\ simPc = "for"
    /\ IF RoundFrom(round) = BadRound
       THEN /\ simPc' = "panicked"
            /\ UNCHANGED sym_state
       ELSE /\ simPc' = "loop"
            /\ sym_state' = round_start(RoundFrom(round))
    /\ ticks' = 0
    /\ UNCHANGED << strat1, strat2, round, iter, chan, gPc, produced,
                    received, overs >>

\* one iteration of the tick loop in which update returns Some(symst):
\* sym_state = symst; s_tx.send(sym_state).unwrap();
TickContinuing ==
    /\ simPc = "loop"
    /\ ~SendBlocks(chan)
    /\ Len(chan) < MaxQueue
    /\ LET it == Iteration(sym_state, strat1, strat2)
       IN  /\ it.res.some
           /\ iter' = it
           /\ sym_state' = it.res.val
           /\ IF ReceiverAlive
              THEN /\ chan' = Append(chan,
                          [id |-> IF Len(produced) < MaxFrames
                                  THEN Len(produced) + 1 ELSE 0,
                           frame |-> it.res.val])
                   /\ simPc' = "loop"
              ELSE /\ chan' = chan
                   /\ simPc' = "panicked"
           /\ produced' = IF Len(produced) < MaxFrames
                          THEN Append(produced, it.res.val) ELSE produced
    /\ ticks' = IF ticks < MaxTicks THEN ticks + 1 ELSE ticks
    /\ UNCHANGED << strat1, strat2, round, gPc, received, overs >>

\* one iteration of the tick loop in which update returns None: break, and
\* the for loop takes the next round or ends the thread, dropping s_tx
TickRoundOver ==
    /\ simPc = "loop"
    /\ LET it == Iteration(sym_state, strat1, strat2)
       IN  /\ ~it.res.some
           /\ iter' = it
           /\ overs' = overs \cup { << it.res, Down(sym_state) >> }
    /\ round' = round + 1
    /\ simPc' = IF round + 1 > LastRound THEN "done" ELSE "for"
    /\ UNCHANGED << strat1, strat2, sym_state, chan, gPc, produced, received,
                    ticks >>

\* graphics_driver: if states.try_recv().is_err() { sleep(..) }
FirstPoll ==
    /\ gPc = "poll"
    /\ gPc' = "while"
    /\ IF chan # << >>
       THEN /\ chan' = Tail(chan)
            /\ received' = IF Head(chan).id > 0
                           THEN Append(received, Head(chan).id) ELSE received
       ELSE UNCHANGED << chan, received >>
    /\ UNCHANGED << strat1, strat2, round, simPc, sym_state, iter, produced,
                    overs, ticks >>

\* graphics_driver: while let Ok(frame) = states.try_recv() { draw; sleep }
DrawFrame ==
    /\ gPc = "while"
    /\ chan # << >>
    /\ chan' = Tail(chan)
    /\ received' = IF Head(chan).id > 0
                   THEN Append(received, Head(chan).id) ELSE received
    /\ UNCHANGED << strat1, strat2, round, simPc, sym_state, iter, gPc,
                    produced, overs, ticks >>

\* graphics_driver: try_recv returns Err (empty or disconnected), the loop
\* ends, the function returns and `states` is dropped with what it holds
DriverReturns ==
    /\ gPc = "while"
    /\ chan = << >>
    /\ gPc' = "returned"
    /\ UNCHANGED << strat1, strat2, round, simPc, sym_state, iter, chan,
                    produced, received, overs, ticks >>

Next ==
    \/ StartRound
    \/ TickContinuing
    \/ TickRoundOver
    \/ FirstPoll
    \/ DrawFrame
    \/ DriverReturns

Spec == Init /\ [][Next]_vars

\* ------------------------------------------------------------------------
\* Properties
\* ------------------------------------------------------------------------
\* the frames the driver has emitted that the history still holds
Emitted == { produced[i] : i \in 1..Len(produced) }

\* C1 (as stated): every state pair emitted to the output sequence has both
\* centers at distance strictly less than TATAMI_SIZE from the origin.
C1_EmittedInside == \A f \in Emitted : Down(f) = {}

\* C2 (as stated): a RoundOver names the robot that is down: the step's
\* result when only robot 1 is down differs from its result when only
\* robot 2 is down.
C2_OutcomeNamesLoser ==
    \A a, b \in overs :
        (a[2] = {1} /\ b[2] = {2}) => a[1] # b[1]

\* the span [min, max] of the four corner bearings of a target
CornerSpan(s2) ==
    LET b == [i \in 1..4 |-> origin_dir(s2.corners[i])]
    IN  << MinF(MinF(b[1], b[2]), MinF(b[3], b[4])),
           MaxF(MaxF(b[1], b[2]), MaxF(b[3], b[4])) >>

SenseAsStated(s1, s2, d) ==
    IF s1.dir >= CornerSpan(s2)[1] /\ s1.dir <= CornerSpan(s2)[2] THEN d ELSE 0

\* C3 (as stated): the reading of each robot is the center distance when its
\* heading lies within [min corner bearing, max corner bearing] of the
\* other robot, and 0 when it lies strictly outside.
C3_SensorRange ==
    iter.run =>
        LET d == dist(iter.sys[1].center, iter.sys[2].center)
        IN  /\ iter.ir[1] = SenseAsStated(iter.sys[1], iter.sys[2], d)
            /\ iter.ir[2] = SenseAsStated(iter.sys[2], iter.sys[1], d)

\* the collision test with every quantity taken from the provisional pair
OverlapOfProvisional(prov) ==
    LET theta == origin_dir(Vec2Sub(prov[1].center, prov[2].center))
    IN  LessThan(dist(prov[1].center, prov[2].center),
                 Plus(radius_towards(prov[1], theta),
                      radius_towards(prov[2], theta)))

\* C4 (as stated): push resolution happens on a tick exactly when the
\* distance between the provisional centers is less than the sum of the two
\* radius_towards values of the provisional states.
C4_PushIffOverlap ==
    iter.run => (iter.collided <=> OverlapOfProvisional(iter.prov))

BothQuarter == strat1 = "quarter" /\ strat2 = "quarter"

\* the Continuing ticks of round 3 when both robots drive at (0.25, 0.25):
\* they start facing outwards at X_INIT_POS and the round is over once a
\* center has covered TATAMI_SIZE - X_INIT_POS
RoundThreeTicks ==
    Quot(TATAMI_SIZE - X_INIT_POS, vel(Strategy("quarter", 0)))

BothStill == strat1 = "still" /\ strat2 = "still"

\* C6: in round 1 with both strategies returning (0, 0), at every tick the
\* centers and headings equal their initial values and the step yields
\* Continuing; the round never ends and rounds 2 and 3 are never started.
C6_StillIsFixedPoint ==
    BothStill =>
        /\ round = 1
        /\ overs = {}
        /\ simPc # "done"
        /\ simPc # "for" => sym_state = round_start("Round1")
        /\ iter.run => /\ iter.res = Some(round_start("Round1"))
                       /\ ~iter.collided
        /\ \A f \in Emitted : f = round_start("Round1")

C6_Witness ==
    /\ BothStill
    /\ iter.run
    /\ Len(produced) >= 2
    /\ sym_state[1].center = Vec2(X_INIT_POS, 0) /\ sym_state[1].dir = PI
    /\ sym_state[2].center = Vec2(-X_INIT_POS, 0) /\ sym_state[2].dir = 0

\* what one step of the simulation thread must look like for the rounds to
\* run in the order 1, 2, 3
RoundStep ==
    /\ round' # round =>
          /\ round' = round + 1
          /\ simPc = "loop"
          /\ iter'.res = None
    /\ (simPc = "for" /\ simPc' # "for") =>
          /\ round \in 1..3
          /\ RoundFrom(round) \in Round
          /\ simPc' = "loop"
          /\ sym_state' = round_start(RoundFrom(round))
          /\ round' = round
    /\ (simPc = "loop" /\ simPc' = "for") => (round' = round + 1 /\ round' <= 3)
    /\ (simPc # "done" /\ simPc' = "done") =>
          /\ simPc = "loop"
          /\ round = 3
          /\ iter'.res = None
    /\ (simPc # "panicked" /\ simPc' = "panicked") => simPc = "loop"
    /\ simPc = "done" => simPc' = "done"
    /\ round' \in 1..4
    /\ (round' = 4) <=> (simPc' = "done")

\* C7: the rounds run in the order 1, 2, 3, each at most once and each from
\* its template state; round n+1 starts only after round n gave RoundOver;
\* after round 3 the thread finishes; no index outside 1..3 is converted to
\* a Round.
C7_RoundOrder == [][RoundStep]_vars

C7_Witness ==
    /\ simPc = "done"
    /\ round = 4
    /\ Cardinality(overs) >= 1
    /\ ~iter.res.some

\* ids are strictly increasing along a sequence of recorded ids
Increasing(ids) == \A i, j \in 1..Len(ids) : i < j => ids[i] < ids[j]

FramesInOrder ==
    /\ Increasing(received)
    /\ \A i \in 1..Len(received) : received[i] \in 1..Len(produced)
    /\ \A i \in 1..Len(chan) :
          /\ chan[i].id > 0 =>
                /\ chan[i].id \in 1..Len(produced)
                /\ chan[i].frame = produced[chan[i].id]
                /\ \A j \in 1..Len(received) : received[j] < chan[i].id
                /\ \A j \in 1..Len(chan) :
                      i < j => (chan[j].id = 0 \/ chan[i].id < chan[j].id)
          /\ chan[i].id = 0 =>
                /\ Len(produced) = MaxFrames
                /\ \A j \in 1..Len(chan) : i < j => chan[j].id = 0

FrameStep ==
    /\ FramesInOrder'
    /\ simPc = "loop" => ~SendBlocks(chan)
    /\ TickContinuing =>
          /\ iter'.res.some
          /\ \/ chan' = Append(chan, [id |-> Len(produced'), frame |-> sym_state'])
             \/ chan' = Append(chan, [id |-> 0, frame |-> sym_state'])
                  /\ Len(produced) = MaxFrames
             \/ simPc' = "panicked" /\ chan' = chan
          /\ Len(produced) < MaxFrames => produced' = Append(produced, sym_state')
    /\ TickRoundOver =>
          /\ ~iter'.res.some
          /\ UNCHANGED << chan, produced >>
    /\ (FirstPoll \/ DrawFrame \/ DriverReturns) =>
          /\ UNCHANGED << simPc, sym_state, iter, produced >>
          /\ chan' = chan \/ (chan # << >> /\ chan' = Tail(chan))

\* C8: the frames the consumer receives are an in-order subsequence, without
\* duplicates, of the state pairs produced; one pair is produced per
\* Continuing tick and none for a RoundOver tick; the simulation thread
\* never waits for the consumer.
C8_FramesInOrder == [][FrameStep]_vars

C8_Witness ==
    /\ Len(received) >= 2
    /\ Len(chan) >= 1
    /\ chan[1].id > received[Len(received)]
    /\ simPc = "loop"

\* the offsets of the four corners from the center in every template state
SquareOffsets ==
    << Vec2(SUMO_SIZE \div 2, SUMO_SIZE \div 2),
       Vec2(SUMO_SIZE \div 2, -(SUMO_SIZE \div 2)),
       Vec2(-(SUMO_SIZE \div 2), SUMO_SIZE \div 2),
       Vec2(-(SUMO_SIZE \div 2), -(SUMO_SIZE \div 2)) >>

Rigid(s) == \A i \in 1..4 : Vec2Sub(s.corners[i], s.center) = SquareOffsets[i]

\* C9: in every state reached within a round, after any motor steps and
\* push resolutions, each corner minus the center equals the template
\* offset (+-SUMO_SIZE/2, +-SUMO_SIZE/2).
C9_CornersRigid ==
    /\ \A r \in Round : \A k \in 1..2 : Rigid(round_start(r)[k])
    /\ (simPc = "loop" \/ iter.run) => \A k \in 1..2 : Rigid(sym_state[k])
    /\ iter.run => \A k \in 1..2 : Rigid(iter.prov[k])
    /\ \A f \in Emitted : \A k \in 1..2 : Rigid(f[k])
    /\ \A i \in 1..Len(chan) : \A k \in 1..2 : Rigid(chan[i].frame[k])

C9_Witness ==
    /\ iter.run /\ iter.collided /\ iter.res.some
    /\ sym_state[1].center # iter.sys[1].center
    /\ sym_state[1].center # iter.prov[1].center
    /\ \E k \in 1..2 : iter.prov[k].dir # iter.sys[k].dir
    /\ \A k \in 1..2 : Rigid(sym_state[k])

\* C10 (as stated): when the receiving end of the channel has been dropped
\* the simulation thread leaves its tick loop without panicking.
C10_NoPanic == simPc # "panicked"

\* C11 (as stated): on a tick where collision holds, each robot's resulting
\* state is its provisional state (previous state advanced by its own motor
\* command, new heading included) translated by the push vector for one
\* robot and by its negation for the other.
C11_PushKeepsMotorStep ==
    (iter.run /\ iter.collided /\ iter.res.some) =>
        iter.res.val = Pushed_OnProvisional(iter.sys[1], iter.sys[2],
                                            iter.ir_reads[1], iter.ir_reads[2])

\* the bearing between the provisional centers of the last tick
IterTheta == origin_dir(Vec2Sub(iter.prov[1].center, iter.prov[2].center))

\* the radius as the claim gives it: rel reduced into [0, PI/2) and the
\* face-center distance SUMO_SIZE / 2 as the offset
RadiusAsStated(self, theta) ==
    LET rel == (theta - self.dir) % (PI \div 2)
    IN  IF rel <= PI \div 4
        THEN Quot(M * rel, AngScale) + SUMO_SIZE \div 2
        ELSE Quot(M * (PI \div 2 - rel), AngScale) + SUMO_SIZE \div 2

\* C12 (as stated): radius_towards returns M * rel + SUMO_SIZE / 2 for
\* rel <= PI / 4 and M * (PI / 2 - rel) + SUMO_SIZE / 2 otherwise, with rel in
\* [0, PI / 2), so the result lies between SUMO_SIZE / 2 and
\* SUMO_SIZE * SQRT_2 / 2, also when theta - heading is negative.
C12_RadiusAsStated ==
    (iter.run /\ ~IsNaN(IterTheta)) =>
        \A k \in 1..2 :
            LET r == radius_towards(iter.prov[k], IterTheta)
            IN  /\ r = RadiusAsStated(iter.prov[k], IterTheta)
                /\ r >= SUMO_SIZE \div 2
                /\ r <= Quot(SUMO_SIZE * SQRT_2, 2 * AngScale) + 1

====
